---- MODULE Spec2Model ----
(***************************************************************************)
(* A model of core.cpp (CorePrivate / Core of liblinphone): the listener   *)
(* registry and its broadcasts, the foreground/background flag, init and   *)
(* uninit, and the unread-message queries.                                 *)
(*                                                                         *)
(* The Core is driven by one thread.  A listener callback runs inside the  *)
(* broadcast that invoked it, on that thread, and may call back into the   *)
(* Core; the pending broadcasts form a stack of frames, the top one being  *)
(* the broadcast whose callback is running.                                *)
(***************************************************************************)
EXTENDS Naturals, Sequences, FiniteSets, TLC

\* ------------------------------------------------------------------ bounds

\* Longest listener list explored where broadcasts do not nest.
MaxListeners == 3
\* Longest listener list explored where broadcasts nest.
MaxObservers == 2
\* Deepest nesting of broadcasts (a callback starting another broadcast).
MaxDepth == 2

\* The CoreListener objects of the application, and those of them that call
\* enterBackground/enterForeground from their callbacks.
Listener == {"l1", "l2", "l3"}
ReentrantListener == {"l1", "l2"}

VARIABLES
  listeners,       \* CorePrivate::listeners, a std::list<CoreListener *>
  isInBackground,  \* CorePrivate::isInBackground
  stack,           \* the broadcasts in progress, innermost last
  lastTrans,       \* history: the background/foreground broadcast begun last
  suppressed,      \* history: the enterBackground/enterForeground call that
                   \* returned without a broadcast, since the last one begun
  registered       \* history: per listener, the calls of registerListener
                   \* since the last call of unregisterListener for it

listenerVars ==
  <<listeners, isInBackground, stack, lastTrans, suppressed, registered>>

\* Most calls active at once.
MaxCalls == 2
\* Most chat rooms at once.
MaxRooms == 2
\* Most unread messages of one chat room.
MaxUnread == 2
\* Most rounds of the loop of uninit explored.
MaxPolls == 3

\* ms_usleep(10000)
SleepMicroseconds == 10000

\* #define LINPHONE_DB "linphone.db"
LINPHONE_DB == "linphone.db"

\* What Core::getDataPath() returns on the platform.
DataPath == "/data/"

\* A char * is NULL or points to a string: <<>> or <<s>>.
NULL == <<>>

\* The [storage] section of the configuration: each key absent or set.
ConfigUri == {NULL, <<"">>, <<"foo">>}
ConfigBackend == {NULL, <<"mysql">>, <<"MySQL">>, <<"othervalue">>}

\* The local addresses of the chat rooms.
LocalAddress == {"sip:a", "sip:b"}

VARIABLES
  pc,                     \* where the thread is in the life of the Core
  config,                 \* the [storage] section of the LpConfig
  mainDb,                 \* CorePrivate::mainDb and the connection it holds
  remoteListEventHandler, \* CorePrivate::remoteListEventHandler is set
  localListEventHandler,  \* CorePrivate::localListEventHandler is set
  calls,                  \* CorePrivate::calls
  chatRooms,              \* CorePrivate::chatRooms
  chatRoomsById,          \* CorePrivate::chatRoomsById (its keys)
  noCreatedClientGroupChatRooms, \* CorePrivate::noCreatedClientGroupChatRooms
  sipAddressesCache,      \* the cache of AddressPrivate
  storedRooms,            \* what the database holds: the chat rooms persisted
  result,                 \* what the last operation returned, if it was a query
  loaded,                 \* history: loadChatRooms was called
  terminateRequests,      \* history: per call, the calls of terminate()
  iterations,             \* history: the calls of linphone_core_iterate
  sleptUs                 \* history: the time slept in uninit

\* Most proxy configurations at once.
MaxProxies == 2

\* The display names an Address may carry besides its identity.
DisplayName == {"", "Bob"}

\* A LinphoneAddress: the identity (scheme, user, domain) and what comes with it.
Address == [identity : LocalAddress, displayName : DisplayName]

VARIABLES
  primaryContact,         \* what linphone_core_get_primary_contact_parsed returns
  proxyConfigs            \* identity_address of each entry of the list that
                          \* linphone_core_get_proxy_config_list returns

accountVars == <<primaryContact, proxyConfigs>>

VARIABLES
  viaCallback             \* history: per listener, whether a callback made the
                          \* last change of its registration, and which

sessionVars ==
  <<pc, config, mainDb, remoteListEventHandler, localListEventHandler, calls,
    chatRooms, chatRoomsById, noCreatedClientGroupChatRooms, sipAddressesCache,
    storedRooms>>

historyVars == <<loaded, terminateRequests, iterations, sleptUs>>

vars == <<sessionVars, accountVars, viaCallback, result, historyVars>>

Call == 1..MaxCalls
RoomId == 1..MaxRooms

\* --------------------------------------------------------- std::list helpers

\* std::list::push_back
push_back(l, x) == Append(l, x)

RECURSIVE remove(_, _)
\* std::list::remove: walks the list and erases every element equal to x.
remove(l, x) ==
  IF l = <<>> THEN <<>>
  ELSE IF Head(l) = x THEN remove(Tail(l), x)
       ELSE <<Head(l)>> \o remove(Tail(l), x)

\* ------------------------------------------------------- listener registry

\* A registry that keeps one entry per listener.
registerListenerOnce(listener) ==
  listeners' = (IF \E i \in DOMAIN listeners : listeners[i] = listener
                THEN listeners
                ELSE push_back(listeners, listener))

\* CorePrivate::registerListener
registerListener(listener) ==
  listeners' = push_back(listeners, listener)

\* CorePrivate::unregisterListener
unregisterListener(listener) ==
  listeners' = remove(listeners, listener)

\* --------------------------------------------------------------- broadcasts

Top == stack[Len(stack)]

\* A broadcast that walks the registry itself.
IterTargetLive(frame) == listeners

\* The list the range-for of a notify function walks: its local listenersCopy.
IterTarget(frame) == frame.listenersCopy

\* "auto listenersCopy = listeners; for (const auto &listener : listenersCopy)
\*  listener->onX(...)": the copy is taken and the callback of its first element
\* is entered; with no listener the function returns at once.  A frame holds the
\* callback (kind), the copy and the position of the loop (idx: the element whose
\* callback is running).  atStart and delivered are history: the registry when
\* the broadcast began, and the listeners whose callback was invoked so far.
Broadcast(kind) ==
  LET listenersCopy == listeners IN
  IF listenersCopy = <<>>
  THEN stack' = stack
  ELSE stack' = Append(stack,
                  [kind |-> kind, listenersCopy |-> listenersCopy, idx |-> 1,
                   atStart |-> listeners,
                   delivered |-> <<listenersCopy[1]>>])

\* The loop is over: the callback that returns was the one of the last element.
LoopDone(frame) == frame.idx >= Len(IterTarget(frame))

\* A broadcast that puts the registry back as it found it when it returns.
CallbackReturnRestoring ==
  /\ stack # <<>>
  /\ LET f == Top
         target == IterTarget(f)
     IN IF ~LoopDone(f)
        THEN /\ stack' = [stack EXCEPT ![Len(stack)] =
                            [f EXCEPT !.idx = f.idx + 1,
                                      !.delivered = Append(f.delivered, target[f.idx + 1])]]
             /\ listeners' = listeners
        ELSE /\ stack' = SubSeq(stack, 1, Len(stack) - 1)
             /\ listeners' = f.atStart
  /\ UNCHANGED <<isInBackground, lastTrans, suppressed, registered>>
  /\ UNCHANGED vars

\* A callback returns: the loop goes on to the next element and enters its
\* callback, or the notify function returns to its caller.
CallbackReturn ==
  /\ stack # <<>>
  /\ LET f == Top
         target == IterTarget(f)
     IN IF ~LoopDone(f)
        THEN stack' = [stack EXCEPT ![Len(stack)] =
                         [f EXCEPT !.idx = f.idx + 1,
                                   !.delivered = Append(f.delivered, target[f.idx + 1])]]
        ELSE stack' = SubSeq(stack, 1, Len(stack) - 1)
  /\ UNCHANGED <<listeners, isInBackground, lastTrans, suppressed, registered>>
  /\ UNCHANGED vars

\* CorePrivate::notifyGlobalStateChanged
notifyGlobalStateChanged == Broadcast("onGlobalStateChanged")

\* CorePrivate::notifyNetworkReachable
notifyNetworkReachable == Broadcast("onNetworkReachable")

\* CorePrivate::notifyRegistrationStateChanged
notifyRegistrationStateChanged == Broadcast("onRegistrationStateChanged")

\* A setter: the broadcast is made whatever the state was.
notifyEnteringBackgroundAlways ==
  /\ isInBackground' = TRUE
  /\ Broadcast("onEnteringBackground")
  /\ lastTrans' = "onEnteringBackground"
  /\ suppressed' = "none"

\* CorePrivate::notifyEnteringBackground
notifyEnteringBackground ==
  IF isInBackground
  THEN /\ UNCHANGED <<isInBackground, stack, lastTrans>>
       /\ suppressed' = "enterBackground"
  ELSE /\ isInBackground' = TRUE
       /\ Broadcast("onEnteringBackground")
       /\ lastTrans' = "onEnteringBackground"
       /\ suppressed' = "none"

\* A setter: the broadcast is made whatever the state was.
notifyEnteringForegroundAlways ==
  /\ isInBackground' = FALSE
  /\ Broadcast("onEnteringForeground")
  /\ lastTrans' = "onEnteringForeground"
  /\ suppressed' = "none"

\* CorePrivate::notifyEnteringForeground
notifyEnteringForeground ==
  IF ~isInBackground
  THEN /\ UNCHANGED <<isInBackground, stack, lastTrans>>
       /\ suppressed' = "enterForeground"
  ELSE /\ isInBackground' = FALSE
       /\ Broadcast("onEnteringForeground")
       /\ lastTrans' = "onEnteringForeground"
       /\ suppressed' = "none"

\* ------------------------------------------------- operations, as called

\* The application, or the callback that is running, registers a listener.
RegisterListenerOf(S, cap) ==
  \E l \in S :
    /\ Len(listeners) < cap
    /\ registerListener(l)
    /\ registered' = [registered EXCEPT ![l] = @ + 1]
    /\ UNCHANGED vars
    /\ UNCHANGED <<isInBackground, stack, lastTrans, suppressed>>

\* The application, or the callback that is running, unregisters a listener.
UnregisterListenerOf(S) ==
  \E l \in S :
    /\ unregisterListener(l)
    /\ registered' = [registered EXCEPT ![l] = 0]
    /\ UNCHANGED vars
    /\ UNCHANGED <<isInBackground, stack, lastTrans, suppressed>>

\* A report of the global state that brings the Core to the foreground.
NotifyGlobalStateChangedToForeground ==
  /\ stack = <<>>
  /\ notifyGlobalStateChanged
  /\ isInBackground' = FALSE
  /\ UNCHANGED <<listeners, lastTrans, suppressed, registered>>
  /\ UNCHANGED vars

\* The core reports a new global state, from its main loop.
NotifyGlobalStateChanged ==
  /\ stack = <<>>
  /\ notifyGlobalStateChanged
  /\ UNCHANGED <<listeners, isInBackground, lastTrans, suppressed, registered>>
  /\ UNCHANGED vars

\* The core reports a change of network reachability, from its main loop.
NotifyNetworkReachable ==
  /\ stack = <<>>
  /\ notifyNetworkReachable
  /\ UNCHANGED <<listeners, isInBackground, lastTrans, suppressed, registered>>
  /\ UNCHANGED vars

\* The core reports a registration state, from its main loop.
NotifyRegistrationStateChanged ==
  /\ stack = <<>>
  /\ notifyRegistrationStateChanged
  /\ UNCHANGED <<listeners, isInBackground, lastTrans, suppressed, registered>>
  /\ UNCHANGED vars

\* Core::enterBackground
enterBackground ==
  /\ notifyEnteringBackground
  /\ UNCHANGED <<listeners, registered>>
  /\ UNCHANGED vars

\* Core::enterForeground
enterForeground ==
  /\ notifyEnteringForeground
  /\ UNCHANGED <<listeners, registered>>
  /\ UNCHANGED vars

\* The value CorePrivate::isInBackground is constructed with: foreground.
InitialIsInBackground == FALSE

\* The members of a CorePrivate that Core::Core has just constructed.
ListenerInit ==
  /\ listeners = <<>>
  /\ isInBackground = InitialIsInBackground
  /\ stack = <<>>
  /\ lastTrans = "none"
  /\ suppressed = "none"
  /\ registered = [l \in Listener |-> 0]

\* ------------------------------------------------------------- storage

\* lp_config_get_string(config, "storage", key, nullptr)
lp_config_get_string(key) == config[key]

\* L_C_TO_STRING: the empty string for a null pointer.
L_C_TO_STRING(cstr) == IF cstr = NULL THEN "" ELSE cstr[1]

\* strcmp(a, b) == 0, as the set of the outcomes it can have: "eq" or "ne" for
\* two strings; with a null pointer the behaviour is undefined, the comparison
\* reads through it and the process crashes or goes on either way.
strcmp(a, b) ==
  IF a = NULL \/ b = NULL THEN {"eq", "ne", "crash"}
  ELSE IF a[1] = b[1] THEN {"eq"} ELSE {"ne"}

\* Lines 51-60 of init: the outcomes of the choice of backend and uri.
SelectStorage ==
  LET uri == L_C_TO_STRING(lp_config_get_string("uri")) IN
  IF uri # ""
  THEN {[crash |-> cmp = "crash",
         backend |-> IF cmp = "eq" THEN "Mysql" ELSE "Sqlite3",
         uri |-> uri] : cmp \in strcmp(lp_config_get_string("backend"), <<"mysql">>)}
  ELSE {[crash |-> FALSE, backend |-> "Sqlite3", uri |-> DataPath \o LINPHONE_DB]}

\* lFatal() << ...: a fatal-level report; the process does not go on.
lFatal == "aborted"

\* init without the test of what connect returned.
AfterConnectUnchecked(connected) == "running"

\* "if (!mainDb->connect(backend, uri)) lFatal() << ...; loadChatRooms();":
\* where init ends.
AfterConnect(connected) == IF ~connected THEN lFatal ELSE "running"

NoResult == [query |-> "none", localAddress |-> "", count |-> 0]

NoDb == [allocated |-> FALSE, backend |-> "none", uri |-> "", connected |-> FALSE]

RECURSIVE Ids(_)
Ids(rooms) == IF rooms = <<>> THEN {} ELSE {Head(rooms).id} \cup Ids(Tail(rooms))

RECURSIVE Locals(_)
Locals(rooms) == IF rooms = <<>> THEN {} ELSE {Head(rooms).local} \cup Locals(Tail(rooms))

\* CorePrivate::loadChatRooms: every chat room of the database is inserted in
\* chatRooms and in chatRoomsById; their addresses go through the cache.
loadChatRooms ==
  /\ chatRooms' = storedRooms
  /\ chatRoomsById' = Ids(storedRooms)
  /\ sipAddressesCache' = sipAddressesCache \cup Locals(storedRooms)
  /\ loaded' = TRUE

\* CorePrivate::init.  connect opens the database or fails.
init ==
  /\ pc = "created"
  /\ UNCHANGED <<listenerVars, accountVars, viaCallback>>
  /\ remoteListEventHandler' = TRUE
  /\ localListEventHandler' = TRUE
  /\ \E sel \in SelectStorage, connected \in BOOLEAN :
       IF sel.crash
       THEN /\ pc' = "crashed"
            /\ mainDb' = [NoDb EXCEPT !.allocated = TRUE]
            /\ UNCHANGED <<chatRooms, chatRoomsById, sipAddressesCache, loaded>>
       ELSE /\ mainDb' = [allocated |-> TRUE, backend |-> sel.backend,
                          uri |-> sel.uri, connected |-> connected]
            /\ pc' = AfterConnect(connected)
            /\ IF pc' = "running"
               THEN loadChatRooms
               ELSE UNCHANGED <<chatRooms, chatRoomsById, sipAddressesCache, loaded>>
  /\ result' = NoResult
  /\ UNCHANGED <<config, calls, noCreatedClientGroupChatRooms, storedRooms,
                 terminateRequests, iterations, sleptUs>>

\* ---------------------------------------------------------------- uninit

\* CorePrivate::uninit is called.
UninitCall ==
  /\ pc = "running"
  /\ UNCHANGED <<listenerVars, accountVars, viaCallback>>
  /\ pc' = "uninit_while"
  /\ result' = NoResult
  /\ UNCHANGED <<config, mainDb, remoteListEventHandler, localListEventHandler,
                 calls, chatRooms, chatRoomsById, noCreatedClientGroupChatRooms,
                 sipAddressesCache, storedRooms, historyVars>>

\* A loop that leaves with one call still active.
WhileCallsLeftButOne == Len(calls) > 1

\* A drain that gives up after its second round.
WhileCallsUntilTimeout == calls # <<>> /\ iterations < 2

\* "while (!calls.empty())"
WhileCalls == calls # <<>>

\* The test of the loop.
UninitWhile ==
  /\ pc = "uninit_while"
  /\ UNCHANGED <<listenerVars, accountVars, viaCallback>>
  /\ pc' = IF WhileCalls THEN "uninit_terminate" ELSE "uninit_clear"
  /\ UNCHANGED <<config, mainDb, remoteListEventHandler, localListEventHandler,
                 calls, chatRooms, chatRoomsById, noCreatedClientGroupChatRooms,
                 sipAddressesCache, storedRooms, result, historyVars>>

\* A drain that requests the termination of the last call of the list.
UninitTerminateBack ==
  /\ pc = "uninit_terminate"
  /\ UNCHANGED <<listenerVars, accountVars, viaCallback>>
  /\ iterations < MaxPolls
  /\ terminateRequests' = [terminateRequests EXCEPT ![calls[Len(calls)]] = @ + 1]
  /\ pc' = "uninit_iterate"
  /\ UNCHANGED <<config, mainDb, remoteListEventHandler, localListEventHandler,
                 calls, chatRooms, chatRoomsById, noCreatedClientGroupChatRooms,
                 sipAddressesCache, storedRooms, result, loaded, iterations, sleptUs>>

\* "calls.front()->terminate();": the termination of the call is requested.
UninitTerminate ==
  /\ pc = "uninit_terminate"
  /\ UNCHANGED <<listenerVars, accountVars, viaCallback>>
  /\ iterations < MaxPolls
  /\ terminateRequests' = [terminateRequests EXCEPT ![calls[1]] = @ + 1]
  /\ pc' = "uninit_iterate"
  /\ UNCHANGED <<config, mainDb, remoteListEventHandler, localListEventHandler,
                 calls, chatRooms, chatRoomsById, noCreatedClientGroupChatRooms,
                 sipAddressesCache, storedRooms, result, loaded, iterations, sleptUs>>

\* What is left of the calls once those of `gone` are removed.
RemoveCalls(cs, gone) == SelectSeq(cs, LAMBDA c : c \notin gone)

\* A drain that tests the calls again before it sleeps.
AfterIterateSkipSleep(cs) == IF cs = <<>> THEN "uninit_while" ELSE "uninit_sleep"

\* After linphone_core_iterate comes ms_usleep.
AfterIterate(cs) == "uninit_sleep"

\* "linphone_core_iterate(...)": the main loop runs once; any of the calls may
\* reach its end and leave the list.
UninitIterate ==
  /\ pc = "uninit_iterate"
  /\ UNCHANGED <<listenerVars, accountVars, viaCallback>>
  /\ \E gone \in SUBSET Call : calls' = RemoveCalls(calls, gone)
  /\ iterations' = iterations + 1
  /\ pc' = AfterIterate(calls')
  /\ UNCHANGED <<config, mainDb, remoteListEventHandler, localListEventHandler,
                 chatRooms, chatRoomsById, noCreatedClientGroupChatRooms,
                 sipAddressesCache, storedRooms, result, loaded,
                 terminateRequests, sleptUs>>

\* "ms_usleep(10000);"
UninitSleep ==
  /\ pc = "uninit_sleep"
  /\ UNCHANGED <<listenerVars, accountVars, viaCallback>>
  /\ sleptUs' = sleptUs + SleepMicroseconds
  /\ pc' = "uninit_while"
  /\ UNCHANGED <<config, mainDb, remoteListEventHandler, localListEventHandler,
                 calls, chatRooms, chatRoomsById, noCreatedClientGroupChatRooms,
                 sipAddressesCache, storedRooms, result, loaded,
                 terminateRequests, iterations>>

\* A cleanup that leaves noCreatedClientGroupChatRooms as it is.
UninitClearKeepingPending ==
  /\ pc = "uninit_clear"
  /\ UNCHANGED <<listenerVars, accountVars, viaCallback>>
  /\ chatRooms' = <<>>
  /\ chatRoomsById' = {}
  /\ remoteListEventHandler' = FALSE
  /\ localListEventHandler' = FALSE
  /\ sipAddressesCache' = {}
  /\ pc' = "stopped"
  /\ UNCHANGED <<config, mainDb, calls, storedRooms, result, historyVars,
                 noCreatedClientGroupChatRooms>>

\* Lines 85-92: the chat rooms, the handlers and the cache are dropped, and
\* uninit returns.
UninitClear ==
  /\ pc = "uninit_clear"
  /\ UNCHANGED <<listenerVars, accountVars, viaCallback>>
  /\ chatRooms' = <<>>
  /\ chatRoomsById' = {}
  /\ noCreatedClientGroupChatRooms' = {}
  /\ remoteListEventHandler' = FALSE
  /\ localListEventHandler' = FALSE
  /\ sipAddressesCache' = {}
  /\ pc' = "stopped"
  /\ UNCHANGED <<config, mainDb, calls, storedRooms, result, historyVars>>

\* ----------------------------------------- calls and chat rooms, as they live

\* A call begins: it is added at the end of the list of calls.
CallStarted ==
  /\ pc = "running"
  /\ UNCHANGED <<listenerVars, accountVars, viaCallback>>
  /\ Len(calls) < MaxCalls
  /\ LET c == CHOOSE x \in Call :
                /\ \A i \in DOMAIN calls : calls[i] # x
                /\ \A y \in Call : (\A i \in DOMAIN calls : calls[i] # y) => x <= y
     IN calls' = Append(calls, c)
  /\ result' = NoResult
  /\ UNCHANGED <<pc, config, mainDb, remoteListEventHandler, localListEventHandler,
                 chatRooms, chatRoomsById, noCreatedClientGroupChatRooms,
                 sipAddressesCache, storedRooms, historyVars>>

\* A chat room is created for a local address: it is inserted in the lists of
\* the Core and in the database.
ChatRoomCreated ==
  /\ pc = "running"
  /\ UNCHANGED <<listenerVars, accountVars, viaCallback>>
  /\ Len(chatRooms) < MaxRooms
  /\ \E local \in LocalAddress :
       LET id == CHOOSE x \in RoomId :
                   /\ x \notin chatRoomsById
                   /\ \A y \in RoomId : y \notin chatRoomsById => x <= y
           room == [id |-> id, local |-> local, unread |-> 0]
       IN /\ chatRooms' = Append(chatRooms, room)
          /\ storedRooms' = Append(storedRooms, room)
          /\ chatRoomsById' = chatRoomsById \cup {id}
          /\ sipAddressesCache' = sipAddressesCache \cup {local}
  /\ result' = NoResult
  /\ UNCHANGED <<pc, config, mainDb, remoteListEventHandler, localListEventHandler,
                 calls, noCreatedClientGroupChatRooms, historyVars>>

\* The creation of a client group chat room is asked for: until the server
\* answers, the chat room is kept in noCreatedClientGroupChatRooms.
ClientGroupChatRoomRequested ==
  /\ pc = "running"
  /\ UNCHANGED <<listenerVars, accountVars, viaCallback>>
  /\ noCreatedClientGroupChatRooms = {}
  /\ noCreatedClientGroupChatRooms' = {"pending"}
  /\ result' = NoResult
  /\ UNCHANGED <<pc, config, mainDb, remoteListEventHandler, localListEventHandler,
                 calls, chatRooms, chatRoomsById, sipAddressesCache, storedRooms,
                 historyVars>>

\* A chat room is deleted, from the lists of the Core and from the database.
ChatRoomDeleted ==
  /\ pc = "running"
  /\ UNCHANGED <<listenerVars, accountVars, viaCallback>>
  /\ \E i \in DOMAIN chatRooms :
       /\ chatRooms' = SubSeq(chatRooms, 1, i - 1) \o SubSeq(chatRooms, i + 1, Len(chatRooms))
       /\ storedRooms' = chatRooms'
       /\ chatRoomsById' = chatRoomsById \ {chatRooms[i].id}
  /\ result' = NoResult
  /\ UNCHANGED <<pc, config, mainDb, remoteListEventHandler, localListEventHandler,
                 calls, noCreatedClientGroupChatRooms, sipAddressesCache, historyVars>>

\* A message arrives in a chat room and is stored, unread.
MessageReceived ==
  /\ pc = "running"
  /\ UNCHANGED <<listenerVars, accountVars, viaCallback>>
  /\ \E i \in DOMAIN chatRooms :
       /\ chatRooms[i].unread < MaxUnread
       /\ chatRooms' = [chatRooms EXCEPT ![i].unread = @ + 1]
       /\ storedRooms' = chatRooms'
  /\ result' = NoResult
  /\ UNCHANGED <<pc, config, mainDb, remoteListEventHandler, localListEventHandler,
                 calls, chatRoomsById, noCreatedClientGroupChatRooms,
                 sipAddressesCache, historyVars>>

\* The messages of a chat room are marked as read.
MarkedAsRead ==
  /\ pc = "running"
  /\ UNCHANGED <<listenerVars, accountVars, viaCallback>>
  /\ \E i \in DOMAIN chatRooms :
       /\ chatRooms[i].unread > 0
       /\ chatRooms' = [chatRooms EXCEPT ![i].unread = 0]
       /\ storedRooms' = chatRooms'
  /\ result' = NoResult
  /\ UNCHANGED <<pc, config, mainDb, remoteListEventHandler, localListEventHandler,
                 calls, chatRoomsById, noCreatedClientGroupChatRooms,
                 sipAddressesCache, historyVars>>

\* ---------------------------------------------------------------- queries

RECURSIVE StoredUnread(_)
\* MainDb::getUnreadChatMessageCount(): the unread messages the database holds.
StoredUnread(rooms) ==
  IF rooms = <<>> THEN 0 ELSE Head(rooms).unread + StoredUnread(Tail(rooms))

RECURSIVE SumChatRooms(_)
\* The sum of what ChatRoom::getUnreadChatMessageCount returns over a list.
SumChatRooms(rooms) ==
  IF rooms = <<>> THEN 0 ELSE Head(rooms).unread + SumChatRooms(Tail(rooms))


\* An aggregate over the chat rooms of the Core, whatever the database holds.
CountAllInMemory == {[crash |-> FALSE, count |-> SumChatRooms(chatRooms)]}

\* Core::getUnreadChatMessageCount(), as the set of what it can return: what the
\* database counts; before init mainDb is null, the call goes through it, and
\* the process crashes or returns anything.
CountAll ==
  IF mainDb.allocated
  THEN {[crash |-> FALSE, count |-> StoredUnread(storedRooms)]}
  ELSE {[crash |-> TRUE, count |-> 0]} \cup
       {[crash |-> FALSE, count |-> n] : n \in 0..MaxUnread}

RECURSIVE CountLoop(_, _, _)
\* "for (const auto &chatRoom : d->chatRooms) if (chatRoom->getLocalAddress()
\*  == localAddress) count += chatRoom->getUnreadChatMessageCount();"
CountLoop(rooms, localAddress, count) ==
  IF rooms = <<>> THEN count
  ELSE CountLoop(Tail(rooms), localAddress,
                 IF Head(rooms).local = localAddress
                 THEN count + Head(rooms).unread
                 ELSE count)

\* The loop without its test of the local address.
CountOfAnyAddress(localAddress) == SumChatRooms(chatRooms)

\* Core::getUnreadChatMessageCount(const IdentityAddress &localAddress)
CountOf(localAddress) == CountLoop(chatRooms, localAddress, 0)

Alive == pc \in {"created", "running", "stopped"}

\* The application calls Core::getUnreadChatMessageCount().
GetUnreadChatMessageCount ==
  /\ Alive
  /\ UNCHANGED <<listenerVars, accountVars, viaCallback>>
  /\ \E r \in CountAll :
       IF r.crash
       THEN pc' = "crashed" /\ result' = NoResult
       ELSE pc' = pc /\ result' = [query |-> "all", localAddress |-> "", count |-> r.count]
  /\ UNCHANGED <<config, mainDb, remoteListEventHandler, localListEventHandler,
                 calls, chatRooms, chatRoomsById, noCreatedClientGroupChatRooms,
                 sipAddressesCache, storedRooms, historyVars>>

\* The application calls Core::getUnreadChatMessageCount(localAddress).
GetUnreadChatMessageCountOf ==
  /\ Alive
  /\ UNCHANGED <<listenerVars, accountVars, viaCallback>>
  /\ \E localAddress \in LocalAddress :
       result' = [query |-> "local", localAddress |-> localAddress,
                  count |-> CountOf(localAddress)]
  /\ UNCHANGED <<sessionVars, historyVars>>

RECURSIVE CountOfEach(_)
\* The sum, over a list of addresses, of the count of each.
CountOfEach(list) ==
  IF list = <<>> THEN 0
  ELSE CountLoop(chatRooms, Head(list).identity, 0) + CountOfEach(Tail(list))

\* A sum that takes the primary contact and each proxy configuration in turn.
CountFromActiveLocalsPerProfile ==
  CountOfEach(<<primaryContact>> \o proxyConfigs)

\* IdentityAddress(const Address &): the identity of the address, without its
\* display name.
IdentityAddress(address) == address.identity

RECURSIVE InsertAll(_, _)
\* "for (it = ...; it; it = bctbx_list_next(it)) localAddresses.insert(...)":
\* std::set::insert keeps one element per value.
InsertAll(localAddresses, list) ==
  IF list = <<>> THEN localAddresses
  ELSE InsertAll(localAddresses \cup {IdentityAddress(Head(list))}, Tail(list))

RECURSIVE CountFound(_, _, _)
\* "for (const auto &chatRoom : d->chatRooms) { auto it = localAddresses.find(
\*  chatRoom->getLocalAddress()); if (it != localAddresses.end()) count += ...; }"
CountFound(rooms, localAddresses, count) ==
  IF rooms = <<>> THEN count
  ELSE CountFound(Tail(rooms), localAddresses,
                  IF Head(rooms).local \in localAddresses
                  THEN count + Head(rooms).unread
                  ELSE count)

\* Core::getUnreadChatMessageCountFromActiveLocals
CountFromActiveLocals ==
  LET localAddresses == InsertAll({IdentityAddress(primaryContact)}, proxyConfigs)
  IN CountFound(chatRooms, localAddresses, 0)

\* The application calls Core::getUnreadChatMessageCountFromActiveLocals().
GetUnreadChatMessageCountFromActiveLocals ==
  /\ Alive
  /\ UNCHANGED <<listenerVars, viaCallback>>
  /\ result' = [query |-> "activeLocals", localAddress |-> "",
                count |-> CountFromActiveLocals]
  /\ UNCHANGED <<sessionVars, accountVars, historyVars>>

\* linphone_core_add_proxy_config: a proxy configuration, which has an identity,
\* is added to the list.
ProxyConfigAdded ==
  /\ pc \in {"created", "running"}
  /\ UNCHANGED <<listenerVars, viaCallback>>
  /\ Len(proxyConfigs) < MaxProxies
  /\ \E address \in Address : proxyConfigs' = Append(proxyConfigs, address)
  /\ result' = NoResult
  /\ UNCHANGED <<sessionVars, primaryContact, historyVars>>

\* linphone_core_remove_proxy_config
ProxyConfigRemoved ==
  /\ pc \in {"created", "running"}
  /\ UNCHANGED <<listenerVars, viaCallback>>
  /\ \E i \in DOMAIN proxyConfigs :
       proxyConfigs' = SubSeq(proxyConfigs, 1, i - 1) \o
                       SubSeq(proxyConfigs, i + 1, Len(proxyConfigs))
  /\ result' = NoResult
  /\ UNCHANGED <<sessionVars, primaryContact, historyVars>>

\* -------------------------------------------------------- the whole Core

NoStorageSection == [uri |-> NULL, backend |-> NULL]

\* The chat rooms a database may hold when the Core is created.
RECURSIVE RoomLists(_)
RoomLists(n) ==
  IF n = 0 THEN {<<>>}
  ELSE RoomLists(n - 1) \cup
       {Append(rooms, [id |-> Len(rooms) + 1, local |-> l, unread |-> u]) :
          rooms \in {r \in RoomLists(n - 1) : Len(r) = n - 1},
          l \in LocalAddress, u \in 0..MaxUnread}

\* A Core that Core::create has returned: nothing is initialised yet.  The
\* configuration is one of `configs`, the database holds one of `stored`, the
\* primary contact is one of `contacts`.
CoreCreated(configs, stored, contacts) ==
  /\ ListenerInit
  /\ pc = "created"
  /\ config \in configs
  /\ mainDb = NoDb
  /\ remoteListEventHandler = FALSE
  /\ localListEventHandler = FALSE
  /\ calls = <<>>
  /\ chatRooms = <<>>
  /\ chatRoomsById = {}
  /\ noCreatedClientGroupChatRooms = {}
  /\ sipAddressesCache = {}
  /\ storedRooms \in stored
  /\ primaryContact \in contacts
  /\ proxyConfigs = <<>>
  /\ viaCallback = [l \in Listener |-> "no"]
  /\ result = NoResult
  /\ loaded = FALSE
  /\ terminateRequests = [c \in Call |-> 0]
  /\ iterations = 0
  /\ sleptUs = 0

allVars == <<vars, listenerVars>>

Next ==
  \/ init
  \/ UninitCall
  \/ UninitWhile
  \/ UninitTerminate
  \/ UninitIterate
  \/ UninitSleep
  \/ UninitClear
  \/ CallStarted
  \/ ChatRoomCreated
  \/ ClientGroupChatRoomRequested
  \/ ChatRoomDeleted
  \/ MessageReceived
  \/ MarkedAsRead
  \/ GetUnreadChatMessageCount
  \/ GetUnreadChatMessageCountOf

\* The life of a Core whose configuration has no [storage] section.
\* The primary contact of a Core whose configuration sets none.
DefaultContact == [identity |-> "sip:a", displayName |-> ""]

Init == CoreCreated({NoStorageSection}, RoomLists(MaxRooms), {DefaultContact})

Spec == Init /\ [][Next]_allVars

\* init, under every configuration.
InitAnyConfig ==
  CoreCreated([uri : ConfigUri, backend : ConfigBackend], RoomLists(MaxRooms),
              {DefaultContact})

SpecInit == InitAnyConfig /\ [][init]_allVars

\* A Core with no chat room, for the listeners.
InitListeners == CoreCreated({NoStorageSection}, {<<>>}, {DefaultContact})

\* --- uninit, as the thread runs it: a step of uninit that can be taken is
\* taken; the calls end when the main loop makes them.

DrainNext ==
  \/ init
  \/ CallStarted
  \/ UninitCall
  \/ UninitWhile
  \/ UninitTerminate
  \/ UninitIterate
  \/ UninitSleep
  \/ UninitClear

InitDrain == CoreCreated({NoStorageSection}, RoomLists(1), {DefaultContact})

SpecDrain ==
  /\ InitDrain
  /\ [][DrainNext]_allVars
  /\ WF_allVars(UninitWhile)
  /\ WF_allVars(UninitTerminate)
  /\ WF_allVars(UninitIterate)
  /\ WF_allVars(UninitSleep)
  /\ WF_allVars(UninitClear)

\* --- the unread messages of the active local addresses, under every primary
\* contact and list of proxy configurations.

InitAccounts == CoreCreated({NoStorageSection}, RoomLists(MaxRooms), Address)

AccountsNext ==
  \/ init
  \/ ProxyConfigAdded
  \/ ProxyConfigRemoved
  \/ GetUnreadChatMessageCountFromActiveLocals

SpecAccounts == InitAccounts /\ [][AccountsNext]_allVars

\* --- the registry and its broadcasts: every operation is called by the
\* application; the callbacks register and unregister listeners.

RegisterListener == RegisterListenerOf(Listener, MaxListeners)

UnregisterListener == UnregisterListenerOf(Listener)

AppEnterBackground == stack = <<>> /\ enterBackground

AppEnterForeground == stack = <<>> /\ enterForeground

RegistryNext ==
  \/ RegisterListener
  \/ UnregisterListener
  \/ NotifyGlobalStateChanged
  \/ NotifyNetworkReachable
  \/ NotifyRegistrationStateChanged
  \/ AppEnterBackground
  \/ AppEnterForeground
  \/ CallbackReturn

SpecRegistry == InitListeners /\ [][RegistryNext]_allVars

\* --- the registry as the callbacks change it: the application and the
\* callbacks register and unregister listeners; the history tells which of the
\* two made the last change of each listener.

ChangedBy == IF stack # <<>> THEN "callback" ELSE "application"

Registers ==
  \E l \in ReentrantListener :
    /\ Len(listeners) < MaxObservers
    /\ registerListener(l)
    /\ registered' = [registered EXCEPT ![l] = @ + 1]
    /\ viaCallback' = [viaCallback EXCEPT ![l] =
                         IF ChangedBy = "callback" THEN "registered" ELSE "no"]
    /\ UNCHANGED <<isInBackground, stack, lastTrans, suppressed>>
    /\ UNCHANGED <<sessionVars, accountVars, result, historyVars>>

Unregisters ==
  \E l \in ReentrantListener :
    /\ unregisterListener(l)
    /\ registered' = [registered EXCEPT ![l] = 0]
    /\ viaCallback' = [viaCallback EXCEPT ![l] =
                         IF ChangedBy = "callback" THEN "unregistered" ELSE "no"]
    /\ UNCHANGED <<isInBackground, stack, lastTrans, suppressed>>
    /\ UNCHANGED <<sessionVars, accountVars, result, historyVars>>

CallbacksNext ==
  \/ Registers
  \/ Unregisters
  \/ NotifyGlobalStateChanged
  \/ CallbackReturn

SpecCallbacks == InitListeners /\ [][CallbacksNext]_allVars

\* --- background and foreground: enterBackground and enterForeground are called
\* by the application and by the callbacks, which nests the broadcasts.

RegisterObserver == RegisterListenerOf(ReentrantListener, MaxObservers)

UnregisterObserver == UnregisterListenerOf(ReentrantListener)

EnterBackground == Len(stack) < MaxDepth /\ enterBackground

EnterForeground == Len(stack) < MaxDepth /\ enterForeground

BackgroundNext ==
  \/ RegisterObserver
  \/ UnregisterObserver
  \/ EnterBackground
  \/ EnterForeground
  \/ CallbackReturn

SpecBackground == InitListeners /\ [][BackgroundNext]_allVars

\* --- the whole life of a Core and its listeners: the application calls the
\* operations of the Core one after the other, from its thread; a callback may
\* call the queries and change the registry.  One listener is registered, once
\* or more.

\* The application is not inside a call of init or uninit.
AtRest == pc \in {"created", "running", "stopped"}

LifeInit == stack = <<>> /\ init

LifeUninitCall == stack = <<>> /\ UninitCall

LifeEnterBackground == AtRest /\ AppEnterBackground

LifeEnterForeground == AtRest /\ AppEnterForeground

LifeNotifyGlobalStateChanged == AtRest /\ NotifyGlobalStateChanged

LifeNotifyNetworkReachable == AtRest /\ NotifyNetworkReachable

LifeNotifyRegistrationStateChanged == AtRest /\ NotifyRegistrationStateChanged

LifeRegisterListener == AtRest /\ RegisterListenerOf({"l1"}, MaxObservers)

LifeUnregisterListener == AtRest /\ UnregisterListenerOf({"l1"})

LifeNext ==
  \/ LifeInit
  \/ CallStarted
  \/ LifeUninitCall
  \/ UninitWhile
  \/ UninitTerminate
  \/ UninitIterate
  \/ UninitSleep
  \/ UninitClear
  \/ GetUnreadChatMessageCount
  \/ GetUnreadChatMessageCountOf
  \/ GetUnreadChatMessageCountFromActiveLocals
  \/ LifeRegisterListener
  \/ LifeUnregisterListener
  \/ LifeNotifyGlobalStateChanged
  \/ LifeNotifyNetworkReachable
  \/ LifeNotifyRegistrationStateChanged
  \/ LifeEnterBackground
  \/ LifeEnterForeground
  \/ CallbackReturn

SpecLife == InitListeners /\ [][LifeNext]_allVars

\* ------------------------------------------------------------ properties

Occurrences(seq, x) == Cardinality({i \in DOMAIN seq : seq[i] = x})

Positions(seq, x) == {i \in DOMAIN seq : seq[i] = x}

Without(seq, x) == SelectSeq(seq, LAMBDA y : y # x)

\* A notify function returns in this step.
BroadcastReturns == Len(stack') < Len(stack)

\* A notify function enters its first callback in this step.
BroadcastBegins(kind) == Len(stack') > Len(stack) /\ stack'[Len(stack')].kind = kind

\* C1: a broadcast invokes the callback on exactly the listeners that were in the
\* registry when it began, once per entry and in registration order, whatever
\* the callbacks register or unregister meanwhile: while it runs, the listeners
\* invoked so far are a prefix of that registry, and when it returns they are
\* the whole of it.
C1_BroadcastDeliversSnapshot ==
  /\ [](\A i \in DOMAIN stack :
          /\ stack[i].delivered # <<>>
          /\ Len(stack[i].delivered) <= Len(stack[i].atStart)
          /\ stack[i].delivered =
               SubSeq(stack[i].atStart, 1, Len(stack[i].delivered)))
  /\ [][BroadcastReturns => Top.delivered = Top.atStart]_allVars

\* C1, its case: a broadcast over two listeners or more has invoked them all,
\* and a callback has unregistered one of them and registered another meanwhile.
C1_Witness ==
  /\ stack # <<>>
  /\ Len(Top.atStart) >= 2
  /\ Top.delivered = Top.atStart
  /\ \E l \in Listener : Occurrences(Top.atStart, l) > 0 /\ Occurrences(listeners, l) = 0
  /\ \E l \in Listener : Occurrences(Top.atStart, l) = 0 /\ Occurrences(listeners, l) > 0

\* C2: a listener registered k times since it was last unregistered holds k
\* entries of the registry, each added at the end by its call; unregistering it
\* removes them all and leaves the other entries in their order; and a broadcast
\* invokes a listener at each position it holds in the registry the broadcast
\* began with.
C2_DuplicatesAndRemoval ==
  /\ [](\A l \in Listener : Occurrences(listeners, l) = registered[l])
  /\ [][\A l \in Listener :
          /\ registered'[l] = registered[l] + 1 =>
               /\ Len(listeners') = Len(listeners) + 1
               /\ SubSeq(listeners', 1, Len(listeners)) = listeners
               /\ listeners'[Len(listeners')] = l
          /\ (registered[l] > 0 /\ registered'[l] = 0) =>
               /\ Occurrences(listeners', l) = 0
               /\ Len(listeners') = Len(listeners) - registered[l]
               /\ listeners' = Without(listeners, l)]_allVars
  /\ [][BroadcastReturns =>
          \A l \in Listener :
            Positions(Top.delivered, l) = Positions(Top.atStart, l)]_allVars

\* C2, its case: a listener registered twice, around another one, was invoked
\* twice by a broadcast, and was then unregistered: the other one alone is left.
C2_Witness ==
  /\ stack # <<>>
  /\ Top.atStart = <<"l1", "l2", "l1">>
  /\ Top.delivered = Top.atStart
  /\ listeners = <<"l2">>
  /\ registered["l1"] = 0

\* C3: an entering-background broadcast begins only in a step that takes the
\* state from foreground to background, and then the last background/foreground
\* broadcast begun, if any, was an entering-foreground one; symmetrically for
\* entering-foreground, which never comes first.  A call of enterBackground in
\* the background starts no broadcast.
C3_TransitionsAlternate ==
  /\ [][/\ BroadcastBegins("onEnteringBackground") =>
             /\ ~isInBackground /\ isInBackground'
             /\ lastTrans \in {"none", "onEnteringForeground"}
        /\ BroadcastBegins("onEnteringForeground") =>
             /\ isInBackground /\ ~isInBackground'
             /\ lastTrans = "onEnteringBackground"
        /\ lastTrans' # lastTrans => isInBackground' # isInBackground
       ]_allVars
  /\ [][(isInBackground /\ enterBackground) => stack' = stack]_allVars

\* C3, its case: with listeners registered, enterBackground was called, its
\* broadcast returned, and enterBackground was called again.
C3_Witness ==
  /\ stack = <<>>
  /\ listeners # <<>>
  /\ isInBackground
  /\ lastTrans = "onEnteringBackground"
  /\ suppressed = "enterBackground"

\* C4: the state is foreground at first; enterForeground in the foreground, and
\* enterBackground in the background, invoke no callback and leave the state and
\* the registry as they are.
C4_RedundantTransitionIsNoOp ==
  /\ ~isInBackground
  /\ [][(~isInBackground /\ enterForeground) =>
          UNCHANGED <<isInBackground, stack, listeners, lastTrans>>]_allVars
  /\ [][(isInBackground /\ enterBackground) =>
          UNCHANGED <<isInBackground, stack, listeners, lastTrans>>]_allVars

\* C4, its case: enterForeground was the first operation on the Core that has a
\* listener, and nothing came of it.
C4_Witness ==
  /\ suppressed = "enterForeground"
  /\ lastTrans = "none"
  /\ ~isInBackground
  /\ listeners # <<>>
  /\ stack = <<>>

RECURSIVE SumRequests(_)
\* The calls of terminate() on the calls 1..n.
SumRequests(n) == IF n = 0 THEN 0 ELSE terminateRequests[n] + SumRequests(n - 1)

Returned == pc = "stopped"

\* C5: once uninit has returned no call is active, and none is while uninit
\* drops the chat rooms and the handlers.
C5_NoCallLeftAfterUninit ==
  (pc = "uninit_clear" \/ Returned) => calls = <<>>

\* C5, its case: uninit has returned after it found two calls active and
\* requested the termination of both.
C5_Witness ==
  /\ Returned
  /\ \A c \in 1..2 : terminateRequests[c] >= 1
  /\ iterations >= 2

\* C6: a round of the loop requests the termination of the first call, then
\* runs the main loop once, then sleeps 10 ms, and only then tests the calls
\* again; with no call active uninit requests no termination, runs no main loop
\* and does not sleep.
C6_RoundOfTheDrain ==
  /\ [](/\ pc = "uninit_terminate" => calls # <<>>
        /\ SumRequests(MaxCalls) = (IF pc = "uninit_iterate" THEN iterations + 1
                                    ELSE iterations)
        /\ sleptUs = 10000 * (IF pc = "uninit_sleep" THEN iterations - 1
                              ELSE iterations))
  /\ [][/\ \A c \in Call :
             terminateRequests'[c] # terminateRequests[c] =>
               /\ calls # <<>> /\ c = calls[1]
               /\ terminateRequests'[c] = terminateRequests[c] + 1
               /\ pc' = "uninit_iterate"
        /\ iterations' # iterations =>
             /\ iterations' = iterations + 1
             /\ pc' = "uninit_sleep"
        /\ sleptUs' # sleptUs => pc' = "uninit_while"
        /\ (pc' = "uninit_terminate" \/ pc' = "uninit_clear") =>
             /\ pc = "uninit_while"
             /\ (pc' = "uninit_clear") = (calls = <<>>)
        /\ pc' = "uninit_while" => sleptUs' # sleptUs \/ pc = "running"
        /\ (pc = "running" /\ pc' = "uninit_while") => UNCHANGED <<calls, historyVars>>
       ]_allVars

\* C6, its case: uninit has returned after two rounds, the second of which
\* emptied the list of calls.
C6_Witness ==
  /\ Returned
  /\ iterations = 2
  /\ sleptUs = 20000
  /\ terminateRequests[1] = 1 /\ terminateRequests[2] = 1

\* The storage init must ask for, given the configuration.
ExpectedStorage ==
  IF config.uri # NULL /\ config.uri # <<"">>
  THEN [backend |-> IF config.backend = <<"mysql">> THEN "Mysql" ELSE "Sqlite3",
        uri |-> config.uri[1]]
  ELSE [backend |-> "Sqlite3", uri |-> DataPath \o LINPHONE_DB]

\* C7: once init has run, the connection was asked for with the configured uri
\* when it is set and not empty, and then with the mysql backend exactly when the
\* backend key is "mysql" and the sqlite3 backend otherwise, the key being absent
\* included; and with the sqlite3 backend and the data path followed by
\* linphone.db when the uri is absent or empty.
C7_StorageSelection ==
  pc # "created" =>
    /\ mainDb.backend = ExpectedStorage.backend
    /\ mainDb.uri = ExpectedStorage.uri

\* C7 where the backend key is set, or the uri is not.
C7_StorageSelectionWithBackendKey ==
  (pc # "created" /\ (config.backend # NULL \/ config.uri \in {NULL, <<"">>})) =>
    /\ mainDb.backend = ExpectedStorage.backend
    /\ mainDb.uri = ExpectedStorage.uri

\* C8: init has gone on to load the chat rooms, and the Core is in use, only
\* with the database connected; when connect fails the process stops there,
\* nothing loaded.
C8_NoCoreWithoutStorage ==
  /\ loaded => mainDb.connected
  /\ pc \in {"running", "uninit_while", "uninit_terminate", "uninit_iterate",
             "uninit_sleep", "uninit_clear", "stopped"} =>
       mainDb.allocated /\ mainDb.connected
  /\ (mainDb.allocated /\ ~mainDb.connected) =>
       /\ pc \in {"aborted", "crashed"}
       /\ ~loaded /\ chatRooms = <<>> /\ chatRoomsById = {}

\* C8, its case: connect has failed on a database that holds chat rooms, and
\* init has stopped the process.
C8_Witness ==
  /\ pc = "aborted"
  /\ mainDb.allocated /\ ~mainDb.connected
  /\ storedRooms # <<>>
  /\ ~loaded

\* The unread messages of the chat rooms at the positions of `idx`.
RECURSIVE SumAt(_, _)
SumAt(rooms, idx) ==
  IF idx = {} THEN 0
  ELSE LET i == CHOOSE x \in idx : TRUE
       IN rooms[i].unread + SumAt(rooms, idx \ {i})

\* C9, as claimed: getUnreadChatMessageCount() returns the sum of the unread
\* counts of the chat rooms the Core holds in memory, 0 when it holds none.
C9_SumOverChatRooms ==
  (result.query = "all" /\ mainDb.allocated) =>
    result.count = SumAt(chatRooms, DOMAIN chatRooms)

\* C9, amended: once init has run, getUnreadChatMessageCount() returns the
\* count of unread messages of the database, whatever chat rooms the Core holds
\* in memory.
C9_CountOfTheDatabase ==
  (result.query = "all" /\ mainDb.allocated) =>
    result.count = SumAt(storedRooms, DOMAIN storedRooms)

\* C9, its case: uninit has cleared the chat rooms, the database holds unread
\* messages, and the query returns their count.
C9_Witness ==
  /\ result.query = "all"
  /\ Returned
  /\ chatRooms = <<>>
  /\ result.count > 0

SameRoomsOf(localAddress) ==
  SelectSeq(chatRooms', LAMBDA r : r.local = localAddress) =
    SelectSeq(chatRooms, LAMBDA r : r.local = localAddress)

\* C10: getUnreadChatMessageCount(localAddress) returns the sum of the unread
\* counts of the chat rooms whose local address is localAddress; what it returns
\* changes with no step that leaves those chat rooms as they are; and the query
\* changes nothing of the Core.
C10_CountOfLocalAddress ==
  /\ [](result.query = "local" =>
          result.count =
            SumAt(chatRooms, {i \in DOMAIN chatRooms :
                                chatRooms[i].local = result.localAddress}))
  /\ [][\A a \in LocalAddress : SameRoomsOf(a) => CountOf(a)' = CountOf(a)]_allVars
  /\ [][result'.query = "local" => UNCHANGED <<sessionVars, listenerVars>>]_allVars

\* C10, its case: with unread messages in a chat room of each address, the
\* query for one address returns the count of that one alone.
C10_Witness ==
  /\ result.query = "local"
  /\ result.count > 0
  /\ \E i \in DOMAIN chatRooms :
       chatRooms[i].local # result.localAddress /\ chatRooms[i].unread > 0

\* The identities of the primary contact and of the proxy configurations.
ActiveLocals ==
  {primaryContact.identity} \cup {proxyConfigs[i].identity : i \in DOMAIN proxyConfigs}

\* C11: getUnreadChatMessageCountFromActiveLocals() returns the sum of the
\* unread counts of the chat rooms whose local address is the identity of the
\* primary contact or of a proxy configuration, each chat room counted once
\* however many of them share its address, the other chat rooms left out.
C11_CountOfActiveLocals ==
  result.query = "activeLocals" =>
    result.count = SumAt(chatRooms, {i \in DOMAIN chatRooms :
                                       chatRooms[i].local \in ActiveLocals})

\* C11, its case: two proxy configurations and the primary contact share one
\* identity, under different display names; a chat room of that identity and
\* one of another both hold unread messages; the first alone is counted, once.
C11_Witness ==
  /\ result.query = "activeLocals"
  /\ Len(proxyConfigs) = 2
  /\ proxyConfigs[1].identity = proxyConfigs[2].identity
  /\ proxyConfigs[1] # proxyConfigs[2]
  /\ primaryContact.identity = proxyConfigs[1].identity
  /\ Len(chatRooms) = 2
  /\ chatRooms[1].local = primaryContact.identity /\ chatRooms[1].unread > 0
  /\ chatRooms[2].local # primaryContact.identity /\ chatRooms[2].unread > 0
  /\ result.count = chatRooms[1].unread

\* C12: while a broadcast runs, a registration or an unregistration changes the
\* registry itself, at once, and no other step changes it; the return of the
\* broadcast leaves the registry as the callbacks left it; and a broadcast that
\* begins takes the registry as it is then, so that it invokes a listener that
\* a callback registered during an earlier broadcast and does not invoke one
\* that a callback unregistered, and when it returns it has invoked exactly the
\* listeners it took.
C12_CallbackChangesAreKept ==
  /\ [][stack # <<>> =>
          /\ \A l \in Listener :
               /\ registered'[l] = registered[l] + 1 =>
                    listeners' = Append(listeners, l)
               /\ (registered[l] > 0 /\ registered'[l] = 0) =>
                    listeners' = Without(listeners, l)
          /\ registered' = registered => listeners' = listeners]_allVars
  /\ [][BroadcastReturns =>
          /\ listeners' = listeners
          /\ Top.delivered = Top.listenersCopy]_allVars
  /\ [][Len(stack') > Len(stack) =>
          /\ listeners' = listeners
          /\ stack'[Len(stack')].listenersCopy = listeners
          /\ \A l \in Listener :
               /\ viaCallback[l] = "registered" =>
                    Occurrences(stack'[Len(stack')].listenersCopy, l) = registered[l]
               /\ viaCallback[l] = "unregistered" =>
                    Occurrences(stack'[Len(stack')].listenersCopy, l) = 0]_allVars
  /\ [](\A l \in Listener :
          /\ viaCallback[l] = "registered" => Occurrences(listeners, l) >= 1
          /\ viaCallback[l] = "unregistered" => Occurrences(listeners, l) = 0)

\* C12, its case: a broadcast has invoked a listener that a callback of an
\* earlier broadcast registered, and has not invoked one that a callback of an
\* earlier broadcast unregistered.
C12_Witness ==
  /\ stack # <<>>
  /\ Top.delivered = Top.atStart
  /\ \E l \in Listener :
       viaCallback[l] = "registered" /\ Occurrences(Top.delivered, l) = 1
  /\ \E l \in Listener :
       viaCallback[l] = "unregistered" /\ Occurrences(Top.delivered, l) = 0

Active(c) == \E i \in DOMAIN calls : calls[i] = c

InUninit ==
  pc \in {"uninit_while", "uninit_terminate", "uninit_iterate", "uninit_sleep",
          "uninit_clear"}

\* Every call that is active and whose termination was requested leaves the
\* list of calls later on.
RequestedCallsEnd ==
  \A c \in Call : (Active(c) /\ terminateRequests[c] > 0) ~> ~Active(c)

\* The rounds explored are over with a call still active: the drain goes on,
\* beyond what is explored.
RoundsExhausted == pc = "uninit_terminate" /\ iterations >= MaxPolls

\* C13: if every active call whose termination was requested leaves the list
\* of calls after some rounds (within the rounds explored), uninit, once
\* called, returns, the chat rooms cleared and the handlers released; and if
\* uninit is called and a call stays in the list for ever, uninit never reaches
\* its cleanup and never returns.
C13_UninitReturnsIfCallsEnd ==
  /\ (RequestedCallsEnd /\ []~RoundsExhausted) =>
       (InUninit ~> (Returned /\ chatRooms = <<>> /\ ~remoteListEventHandler
                              /\ ~localListEventHandler))
  /\ \A c \in Call :
       (<>[]Active(c) /\ <>InUninit) => [](pc # "uninit_clear" /\ ~Returned)

\* C13, its case: uninit has returned after the first call stayed active
\* through two rounds and a second call was active too.
C13_Witness ==
  /\ Returned
  /\ terminateRequests[1] >= 2
  /\ terminateRequests[2] >= 1

\* C13, its other case: a call is still active after all the rounds explored.
C13_WitnessBlocked ==
  /\ pc = "uninit_terminate"
  /\ iterations = MaxPolls
  /\ calls # <<>>

\* What uninit clears: the chat rooms, their index, the chat rooms being
\* created, the two handlers and the cache of addresses.
cleared ==
  <<chatRooms, chatRoomsById, noCreatedClientGroupChatRooms,
    remoteListEventHandler, localListEventHandler, sipAddressesCache>>

\* C14: once uninit has returned, chatRooms, chatRoomsById and
\* noCreatedClientGroupChatRooms are empty, both handlers are released and the
\* cache of addresses is empty; and uninit changes none of them, and does not
\* return, while a call is active: it does so after its loop only.
C14_CleanupFollowsTheDrain ==
  /\ [](Returned =>
          /\ chatRooms = <<>>
          /\ chatRoomsById = {}
          /\ noCreatedClientGroupChatRooms = {}
          /\ ~remoteListEventHandler
          /\ ~localListEventHandler
          /\ sipAddressesCache = {})
  /\ [][(InUninit /\ (cleared' # cleared \/ Returned')) =>
          /\ calls = <<>>
          /\ pc = "uninit_clear"
          /\ Returned']_allVars
  /\ [][(InUninit /\ calls # <<>>) => cleared' = cleared]_allVars

\* C14, its case: uninit has returned, having drained a call, on a Core that
\* had chat rooms loaded from the database.
C14_Witness ==
  /\ Returned
  /\ loaded
  /\ storedRooms # <<>>
  /\ iterations >= 1
  /\ chatRooms = <<>>
  /\ ~remoteListEventHandler

\* C15: when init reports that the database cannot be opened, neither the
\* remote nor the local list event handler has been constructed, and no chat
\* room has been loaded.
C15_FailureBeforeHandlers ==
  pc = lFatal =>
    /\ ~remoteListEventHandler
    /\ ~localListEventHandler
    /\ ~loaded
    /\ chatRooms = <<>>
    /\ chatRoomsById = {}

\* C15 for the chat rooms alone: none has been loaded when init reports that
\* the database cannot be opened.
C15_FailureBeforeChatRooms ==
  pc = lFatal => (~loaded /\ chatRooms = <<>> /\ chatRoomsById = {})

\* The callbacks of the broadcasts that do not look at isInBackground.
Unguarded ==
  {"onGlobalStateChanged", "onNetworkReachable", "onRegistrationStateChanged"}

\* C16: isInBackground changes only in a call of enterBackground or
\* enterForeground that makes the transition; a step that registers or
\* unregisters a listener, begins, continues or ends a broadcast of the global
\* state, the network reachability or the registration state, belongs to init
\* or uninit, or returns from a query, leaves it as it is; and these three
\* broadcasts can be made, and invoke the listeners of the registry as it was
\* when they began, in the foreground and in the background alike.
C16_OnlyTransitionsChangeTheFlag ==
  /\ [][isInBackground' # isInBackground =>
          /\ lastTrans' = (IF isInBackground' THEN "onEnteringBackground"
                                              ELSE "onEnteringForeground")
          /\ suppressed' = "none"
          /\ UNCHANGED <<listeners, registered, vars>>
          /\ \/ (stack' = stack /\ listeners = <<>>)
             \/ BroadcastBegins(lastTrans')]_allVars
  /\ [][(\/ registered' # registered
          \/ listeners' # listeners
          \/ \E k \in Unguarded : BroadcastBegins(k)
          \/ (stack # <<>> /\ Top.kind \in Unguarded /\ stack' # stack)
          \/ pc' # pc
          \/ historyVars' # historyVars
          \/ sessionVars' # sessionVars
          \/ result' # result) => isInBackground' = isInBackground]_allVars
  /\ [](\A i \in DOMAIN stack :
          stack[i].kind \in Unguarded =>
            /\ stack[i].listenersCopy = stack[i].atStart
            /\ stack[i].delivered =
                 SubSeq(stack[i].atStart, 1, Len(stack[i].delivered)))
  /\ [][(BroadcastReturns /\ Top.kind \in Unguarded) =>
          Top.delivered = Top.atStart]_allVars
  /\ []((AtRest /\ stack = <<>> /\ listeners # <<>>) =>
          /\ ENABLED (LifeNotifyGlobalStateChanged /\ Len(stack') = 1)
          /\ ENABLED (LifeNotifyNetworkReachable /\ Len(stack') = 1)
          /\ ENABLED (LifeNotifyRegistrationStateChanged /\ Len(stack') = 1))

\* C16, its case: in the background, after init, a query and the registration
\* of two listeners, a broadcast of the network reachability has invoked both,
\* and the Core is in the background still.
C16_Witness ==
  /\ isInBackground
  /\ pc = "running"
  /\ stack # <<>>
  /\ Top.kind = "onNetworkReachable"
  /\ Len(Top.atStart) = 2
  /\ Top.delivered = Top.atStart
  /\ result.query = "all"

\* A callback of this kind is entered in this step: the first of a broadcast
\* that begins, or the next of the broadcast whose callback returns.
CallbackEntered(kind) ==
  /\ stack' # <<>>
  /\ stack'[Len(stack')].kind = kind
  /\ \/ Len(stack') > Len(stack)
     \/ (Len(stack') = Len(stack) /\ stack'[Len(stack')].idx # Top.idx)

\* C17: a listener enters onEnteringBackground with the Core in the background
\* and onEnteringForeground with the Core in the foreground, whatever the
\* callbacks entered before it in the same broadcast have called.
C17_DeliveredInTheStateAnnounced ==
  [][/\ CallbackEntered("onEnteringBackground") => isInBackground'
     /\ CallbackEntered("onEnteringForeground") => ~isInBackground']_allVars

\* C17 for the first listener of a broadcast: it enters the callback in the
\* state announced.
C17_FirstDeliveredInTheStateAnnounced ==
  [][/\ BroadcastBegins("onEnteringBackground") => isInBackground'
     /\ BroadcastBegins("onEnteringForeground") => ~isInBackground']_allVars

\* The callback that is running is of this kind.
InCallback(kind) == stack # <<>> /\ Top.kind = kind

\* C18: enterBackground called from a callback onEnteringBackground, and
\* enterForeground called from a callback onEnteringForeground, begin no
\* broadcast.
C18_NoNestedBroadcast ==
  [][/\ (InCallback("onEnteringBackground") /\ enterBackground) => stack' = stack
     /\ (InCallback("onEnteringForeground") /\ enterForeground) => stack' = stack
    ]_allVars

\* C18 where no call has changed the state since the broadcast began: the
\* state is updated in the step that enters the first callback of a
\* transition; enterBackground called from a callback onEnteringBackground
\* while the Core is still in the background, and
\* enterForeground called from a callback onEnteringForeground while it is still
\* in the foreground, begin no broadcast and change nothing; and the broadcast
\* of a transition, when it returns, has invoked each listener of the registry
\* it began with, once per entry.
C18_NoNestedBroadcastInTheSameState ==
  /\ [][/\ BroadcastBegins("onEnteringBackground") => isInBackground'
        /\ BroadcastBegins("onEnteringForeground") => ~isInBackground'
       ]_allVars
  /\ [][/\ (InCallback("onEnteringBackground") /\ isInBackground /\ enterBackground) =>
             UNCHANGED <<stack, isInBackground, listeners>>
        /\ (InCallback("onEnteringForeground") /\ ~isInBackground /\ enterForeground) =>
             UNCHANGED <<stack, isInBackground, listeners>>
       ]_allVars
  /\ [][(BroadcastReturns /\ Top.kind \in {"onEnteringBackground", "onEnteringForeground"}) =>
          /\ Top.delivered = Top.atStart
          /\ \A l \in Listener :
               Occurrences(Top.delivered, l) = Occurrences(Top.atStart, l)]_allVars

\* A callback is entered in this step, and the listener it is invoked on.
Entered ==
  /\ stack' # <<>>
  /\ \/ Len(stack') > Len(stack)
     \/ (Len(stack') = Len(stack) /\ stack'[Len(stack')].idx # Top.idx)

EnteredListener ==
  LET f == stack'[Len(stack')] IN f.delivered[Len(f.delivered)]

\* C19: no callback is entered on a listener that is unregistered and not
\* registered again, whichever broadcast the callback belongs to.
C19_NoCallbackOnceUnregistered ==
  [][Entered => registered'[EnteredListener] > 0]_allVars

\* C19 for the broadcasts that begin later: a broadcast that begins invokes a
\* listener only if it is registered then, so that none that begins after
\* unregisterListener(L) has returned and before L is registered again invokes
\* L; a callback entered on a listener belongs to a broadcast that began with
\* that listener in the registry, whether or not it has been unregistered
\* since.
C19_NoLaterBroadcastOnceUnregistered ==
  /\ [][Len(stack') > Len(stack) =>
          \A l \in Listener :
            /\ registered[l] = 0 =>
                 Occurrences(stack'[Len(stack')].listenersCopy, l) = 0
            /\ Occurrences(stack'[Len(stack')].listenersCopy, l) = registered[l]
       ]_allVars
  /\ [][Entered =>
          LET f == stack'[Len(stack')]
          IN /\ Occurrences(f.atStart, EnteredListener) > 0
             /\ f.atStart[Len(f.delivered)] = EnteredListener]_allVars
  /\ [][\A l \in Listener :
          (registered[l] > 0 /\ registered'[l] = 0) =>
             Occurrences(listeners', l) = 0]_allVars

\* C20: in uninit the termination is requested of the first call of the list
\* only: a call behind another one has received no request, each round makes
\* one request, to the call that is first then, and a call that is first for
\* several rounds receives one request in each.
C20_OnlyTheFrontCallIsTerminated ==
  /\ [](InUninit =>
          \A i \in DOMAIN calls : i > 1 => terminateRequests[calls[i]] = 0)
  /\ [][\A c \in Call :
          terminateRequests'[c] # terminateRequests[c] =>
            /\ pc = "uninit_terminate"
            /\ calls # <<>> /\ calls[1] = c
            /\ terminateRequests'[c] = terminateRequests[c] + 1
            /\ \A d \in Call \ {c} : terminateRequests'[d] = terminateRequests[d]
       ]_allVars
  /\ [][(pc = "uninit_terminate" /\ pc' # pc) =>
          terminateRequests'[calls[1]] = terminateRequests[calls[1]] + 1]_allVars
  /\ [][\A c \in Call :
          (Active(c) /\ ~Active(c)' /\ calls[1] # c) => terminateRequests[c] = 0
       ]_allVars

\* C20, its case: the first of two calls has stayed first for two rounds and
\* received two requests; the second has received none.
C20_Witness ==
  /\ pc = "uninit_iterate"
  /\ calls = <<1, 2>>
  /\ terminateRequests[1] = 2
  /\ terminateRequests[2] = 0

====
